---- MODULE Spec2Model ----
(***************************************************************************)
(* auth2fa: TOTP two-factor authentication with single-use recovery codes *)
(* over a lock-file guarded JSON document.                                 *)
(*                                                                         *)
(* The model follows src/auth2fa/core.py (TwoFactorAuth), recovery.py and  *)
(* storage/json_storage.py (JSONStorage).  Every orchestrator call is run  *)
(* by a thread; a call is a sequence of storage operations, and a storage  *)
(* operation is the sequence of file-system steps of JSONStorage: test the *)
(* lock file, create it, read the document, truncate it, write it, test    *)
(* the lock file again and remove it.                                      *)
(***************************************************************************)
EXTENDS Integers, Sequences, FiniteSets, TLC

\* ------------------------------------------------------------------ bounds

\* The clock runs over the 30-second steps 0..MaxStep.
MaxStep == 1
\* How many times the random source is drawn from (a secret and a batch of
\* recovery codes per draw).
MaxDraws == 2
\* How many calls callers that race each other make between them.
MaxCalls == 3

\* ------------------------------------------------------- program constants

\* generate_recovery_codes(count=8, length=8), core.py lines 65 and 218.
RecoveryCount == 8
RecoveryLength == 8
\* totp.verify(code, valid_window=1), core.py lines 125 and 160.
ValidWindow == 1
\* pyotp's default number of digits of a code.
TotpDigits == 6

Threads == {"t1", "t2"}
SeqThreads == {"t1"}
Users == {"u1", "u2"}

\* ------------------------------------------------------------ pure helpers

UpperCase ==
  << "A", "B", "C", "D", "E", "F", "G", "H", "I", "J", "K", "L", "M",
     "N", "O", "P", "Q", "R", "S", "T", "U", "V", "W", "X", "Y", "Z" >>

LowerCase ==
  << "a", "b", "c", "d", "e", "f", "g", "h", "i", "j", "k", "l", "m",
     "n", "o", "p", "q", "r", "s", "t", "u", "v", "w", "x", "y", "z" >>

DigitChars == << "0", "1", "2", "3", "4", "5", "6", "7", "8", "9" >>

\* recovery.py: ascii_uppercase + digits without "0", "O", "I", "1".
Alphabet ==
  SelectSeq(UpperCase \o DigitChars, LAMBDA c : c \notin {"0", "O", "I", "1"})

\* The letters that have another case, as maps.
ToUpper ==
  [c \in {LowerCase[k] : k \in 1..Len(LowerCase)} |->
     UpperCase[CHOOSE k \in 1..Len(LowerCase) : LowerCase[k] = c]]

ToLower ==
  [c \in {UpperCase[k] : k \in 1..Len(UpperCase)} |->
     LowerCase[CHOOSE k \in 1..Len(UpperCase) : UpperCase[k] = c]]

\* str.upper() on one character and on a string (a sequence of characters).
UpperChar(c) == IF c \in DOMAIN ToUpper THEN ToUpper[c] ELSE c

Upper(s) == [j \in 1..Len(s) |-> UpperChar(s[j])]

\* str.lower(), used only to build what a caller types.
LowerChar(c) == IF c \in DOMAIN ToLower THEN ToLower[c] ELSE c

Lower(s) == [j \in 1..Len(s) |-> LowerChar(s[j])]

\* The k-th draw of the random source, spelled out: the i-th code of the
\* batch is RecoveryLength characters of Alphabet.  Distinct (k, i) give
\* distinct codes (a CSPRNG does not repeat itself).
Choice(k, i, j) ==
  Alphabet[(((k - 1) * RecoveryCount + (i - 1) + (j - 1) * (k + i)) % Len(Alphabet)) + 1]

generate_recovery_codes(k) ==
  [i \in 1..RecoveryCount |-> [j \in 1..RecoveryLength |-> Choice(k, i, j)]]

\* pyotp.random_base32(): the secret of the k-th draw, an opaque number.
random_base32(k) == k

\* ----------------------------------------------------------------- TOTP

RECURSIVE Pow10(_)
Pow10(n) == IF n = 0 THEN 1 ELSE 10 * Pow10(n - 1)

\* The HMAC-based one-time value of (secret, counter), truncated to
\* TotpDigits digits: an arbitrary but fixed function of its arguments.
Hotp(secret, counter) ==
  (secret * 104729 + counter * 7919 + 12345) % Pow10(TotpDigits)

\* The value printed as a zero-padded string of TotpDigits digits.
FormatCode(n) ==
  [j \in 1..TotpDigits |-> DigitChars[((n \div Pow10(TotpDigits - j)) % 10) + 1]]

\* pyotp.TOTP(secret).at(step): the code of a secret at a time step.
TotpCode(secret, step) == FormatCode(Hotp(secret, step))

\* The codes of every secret at every step in reach of the clock, as a table.
TotpAt ==
  [secret \in 1..(MaxDraws + 1) |->
     [step \in (0 - 3)..(MaxStep + 4) |-> TotpCode(secret, step)]]

\* A faulty verification: valid_window left at 0.
TotpVerify_NoWindow(secret, code, at) == code = TotpAt[secret][at]

\* A faulty verification: a window of two steps.
TotpVerify_WideWindow(secret, code, at) ==
  \E i \in (0 - 2)..2 : code = TotpAt[secret][at + i]

\* pyotp.TOTP(secret).verify(code, valid_window=ValidWindow) at time `at`.
TotpVerify(secret, code, at) ==
  \E i \in (0 - ValidWindow)..ValidWindow : code = TotpAt[secret][at + i]

\* ------------------------------------------------------- recovery codes

\* A faulty verify_recovery_code: the matched code is left in the list.
verify_recovery_code_Keep(stored_codes, input_code) ==
  << Upper(input_code) \in {Upper(stored_codes[i]) : i \in 1..Len(stored_codes)},
     stored_codes >>

\* recovery.py verify_recovery_code: (is_valid, updated_codes).
verify_recovery_code(stored_codes, input_code) ==
  LET input_upper == Upper(input_code)
      codes_upper == {Upper(stored_codes[i]) : i \in 1..Len(stored_codes)}
  IN  IF input_upper \in codes_upper
        THEN << TRUE, SelectSeq(stored_codes, LAMBDA rc : Upper(rc) # input_upper) >>
        ELSE << FALSE, stored_codes >>

\* ------------------------------------------------------------------ state

VARIABLES
  file,      \* the JSON document: doc, the last complete document written, and
             \* ok, FALSE while the file on disk is truncated and does not parse
  lock,      \* whether the lock file exists
  now,       \* the clock, in 30-second steps
  draws,     \* how many times the random source has been drawn from
  pc,        \* per thread: where it is in its call
  op,        \* per thread: the orchestrator call [name, id, code]
  phase,     \* per thread: 1 in the first storage operation of a call, 2 in the second
  data,      \* per thread: the orchestrator's local `data`
  found,     \* per thread: what storage.exists returned
  all_data,  \* per thread: the storage operation's local `all_data`
  exc,       \* per thread: the exception in flight inside the storage operation
  ret,       \* per thread: what the call returns or raises
  pre,       \* per thread: the document as it was when the call began
  spent,     \* history: the <<id, code>> a returned verify has consumed since
             \* the record of id was last created
  calls,     \* how many calls have begun, where they are counted
  table      \* the rows of the SQL backend's table, by user_id

vars ==
  << file, lock, now, draws, pc, op, phase, data, found, all_data, exc, ret, pre,
     spent, calls, table >>

\* Python's None, for `data` and for a dict lookup that misses.
None == [none |-> TRUE]

\* The document {} written by _ensure_file_exists.
EmptyDoc == [u \in {} |-> None]

NoOp == [name |-> "none", id |-> "u1", code |-> << >>]

NoRet == [tag |-> "none", line |-> 0, secret |-> 0, codes |-> << >>]

Returns(tag, line) == [tag |-> tag, line |-> line, secret |-> 0, codes |-> << >>]

\* dict.get(key): the value or None.
DictGet(d, key) == IF key \in DOMAIN d THEN d[key] ELSE None

\* key in d.
DictHas(d, key) == key \in DOMAIN d

\* A faulty save: the record of a key that is there is kept.
DictSet_KeepOld(d, key, value) ==
  [k \in (DOMAIN d) \cup {key} |-> IF k \in DOMAIN d THEN d[k] ELSE value]

\* d[key] = value on a dict.
DictSet(d, key, value) ==
  [k \in (DOMAIN d) \cup {key} |-> IF k = key THEN value ELSE d[k]]

\* A faulty del: the key stays.
DictDel_Keep(d, key) == d

\* del d[key].
DictDel(d, key) == [k \in (DOMAIN d) \ {key} |-> d[k]]

\* _read_data: the parsed document, or {} when it does not parse.
ReadDoc == IF file.ok THEN file.doc ELSE EmptyDoc

\* The storage operation a call is in: its first or its second, or the
\* operation itself when the storage is called directly.
StorageOp(t) ==
  IF phase[t] = 2 \/ op[t].name = "save" THEN "save"
  ELSE IF op[t].name = "setup" THEN "exists"
  ELSE IF op[t].name \in {"disable", "delete"} THEN "delete"
  ELSE "get"

Init ==
  /\ file = [ok |-> TRUE, doc |-> EmptyDoc]
  /\ lock = FALSE
  /\ now = 0
  /\ draws = 0
  /\ pc = [t \in Threads |-> "idle"]
  /\ op = [t \in Threads |-> NoOp]
  /\ phase = [t \in Threads |-> 1]
  /\ data = [t \in Threads |-> None]
  /\ found = [t \in Threads |-> FALSE]
  /\ all_data = [t \in Threads |-> EmptyDoc]
  /\ exc = [t \in Threads |-> "none"]
  /\ ret = [t \in Threads |-> NoRet]
  /\ pre = [t \in Threads |-> EmptyDoc]
  /\ spent = {}
  /\ calls = 0
  /\ table = EmptyDoc

\* ---------------------------------------------------------------- callers

\* A string that is no code of anything.
Garbage == << "x" >>

\* The batches of the random source, drawn once.
Batch == [k \in 1..(MaxDraws + 1) |-> generate_recovery_codes(k)]

\* The first code of each batch as typed in lower case.
Typed == [k \in 1..(MaxDraws + 1) |-> Lower(Batch[k][1])]

\* What a caller may type for user id: the TOTP code the authenticator of
\* the enrolled secret shows at a clock skew in `skews`, a recovery code at a
\* position in `picks` of any batch issued so far, and, when `free`, the
\* first code of a batch in lower case or a string that is no code at all.
Inputs(id, skews, picks, free) ==
  (IF id \in DOMAIN file.doc
     THEN {TotpAt[file.doc[id].secret][now + d] : d \in skews}
     ELSE {})
    \cup {Batch[k][i] : k \in 1..draws, i \in picks}
    \cup (IF free THEN {Typed[k] : k \in 1..draws} \cup {Garbage} ELSE {})

\* A lone caller reads the authenticator at the current step, at the edge of
\* the window and one step past it, and types recovery codes in lower case.
SeqInputs(id) == Inputs(id, {0, 1, 2}, {}, TRUE)

\* Callers that race each other type codes that are or were valid.
RaceInputs(id) == Inputs(id, {0}, {1, 2}, FALSE)

\* A caller whose authenticator runs up to two steps behind or ahead of the
\* clock types the code it shows.
ClockInputs(id) == Inputs(id, (0 - 2)..2, {}, FALSE)

\* What a caller types for user id: callers that race each other are the
\* ones whose calls are counted.
CodesTyped(id, counted) == IF counted THEN RaceInputs(id) ELSE SeqInputs(id)

\* The users callers that race each other act for.
RaceUsers == {"u1"}

\* Calls that have yet to draw from the random source.
WillDraw ==
  {t \in Threads : /\ pc[t] \notin {"idle", "done"}
                   /\ op[t].name \in {"setup", "regenerate_recovery_codes"}
                   /\ phase[t] = 1}

\* A thread enters an orchestrator call; its first storage operation begins.
Call(t, name, id, code, counted) ==
  /\ pc[t] = "idle"
  /\ counted => calls < MaxCalls
  /\ calls' = IF counted THEN calls + 1 ELSE calls
  /\ op' = [op EXCEPT ![t] = [name |-> name, id |-> id, code |-> code]]
  /\ pre' = [pre EXCEPT ![t] = file.doc]
  /\ pc' = [pc EXCEPT ![t] = "acq"]
  /\ UNCHANGED << file, lock, now, draws, phase, data, found, all_data, exc, ret, spent, table >>

CallSetup(t, U, counted) ==
  /\ draws + Cardinality(WillDraw) < MaxDraws
  /\ \E id \in U : Call(t, "setup", id, << >>, counted)

CallActivate(t, U, counted) ==
  \E id \in U : \E code \in CodesTyped(id, counted) : Call(t, "activate", id, code, counted)

CallVerify(t, U, counted) ==
  \E id \in U : \E code \in CodesTyped(id, counted) : Call(t, "verify", id, code, counted)

CallDisable(t, U, counted) ==
  \E id \in U : Call(t, "disable", id, << >>, counted)

CallIsEnabled(t, U, counted) ==
  \E id \in U : Call(t, "is_enabled", id, << >>, counted)

CallRegenerate(t, U, counted) ==
  /\ draws + Cardinality(WillDraw) < MaxDraws
  /\ \E id \in U : Call(t, "regenerate_recovery_codes", id, << >>, counted)

\* ---------------------------------------------------------------- storage

\* How a storage operation hands control back to the orchestrator: an
\* exception propagates to the caller (core.py catches nothing); otherwise
\* the call goes on after its first storage operation and returns after its
\* last.
StorageReturn(t, e) ==
  IF e # "none"
    THEN /\ ret' = [ret EXCEPT ![t] = Returns(e, 0)]
         /\ pc' = [pc EXCEPT ![t] = "done"]
  ELSE IF StorageOp(t) \in {"save", "delete"}
    THEN /\ ret' = ret
         /\ pc' = [pc EXCEPT ![t] = "done"]
  ELSE /\ ret' = ret
       /\ pc' = [pc EXCEPT ![t] = "cont"]

\* _acquire_lock: the lock file is not there, the loop is left.
AcquireLock(t) ==
  /\ pc[t] = "acq"
  /\ ~lock
  /\ pc' = [pc EXCEPT ![t] = "touch"]
  /\ UNCHANGED << file, lock, now, draws, op, phase, data, found, all_data, exc, ret, pre, spent, calls, table >>

\* _acquire_lock: the lock file is still there after `timeout` seconds.
AcquireTimeout(t) ==
  /\ pc[t] = "acq"
  /\ lock
  /\ exc' = [exc EXCEPT ![t] = "TimeoutError"]
  /\ pc' = [pc EXCEPT ![t] = "rel"]
  /\ UNCHANGED << file, lock, now, draws, op, phase, data, found, all_data, ret, pre, spent, calls, table >>

\* _acquire_lock: self.lock_path.touch().
TouchLock(t) ==
  /\ pc[t] = "touch"
  /\ lock' = TRUE
  /\ pc' = [pc EXCEPT ![t] = "read"]
  /\ UNCHANGED << file, now, draws, op, phase, data, found, all_data, exc, ret, pre, spent, calls, table >>

\* save: all_data = _read_data(); all_data[user_id] = data.
SaveRead(t) ==
  /\ pc[t] = "read"
  /\ StorageOp(t) = "save"
  /\ all_data' = [all_data EXCEPT ![t] = DictSet(ReadDoc, op[t].id, data[t])]
  /\ pc' = [pc EXCEPT ![t] = "trunc"]
  /\ UNCHANGED << file, lock, now, draws, op, phase, data, found, exc, ret, pre, spent, calls, table >>

\* get: all_data = _read_data(); return all_data.get(user_id).
GetRead(t) ==
  /\ pc[t] = "read"
  /\ StorageOp(t) = "get"
  /\ data' = [data EXCEPT ![t] = DictGet(ReadDoc, op[t].id)]
  /\ pc' = [pc EXCEPT ![t] = "rel"]
  /\ UNCHANGED << file, lock, now, draws, op, phase, found, all_data, exc, ret, pre, spent, calls, table >>

\* delete: all_data = _read_data(); if user_id in all_data: del, then write.
DeleteRead(t) ==
  /\ pc[t] = "read"
  /\ StorageOp(t) = "delete"
  /\ IF DictHas(ReadDoc, op[t].id)
       THEN /\ all_data' = [all_data EXCEPT ![t] = DictDel(ReadDoc, op[t].id)]
            /\ pc' = [pc EXCEPT ![t] = "trunc"]
       ELSE /\ all_data' = all_data
            /\ pc' = [pc EXCEPT ![t] = "rel"]
  /\ ret' = [ret EXCEPT ![t] = Returns("None", 183)]
  /\ UNCHANGED << file, lock, now, draws, op, phase, data, found, exc, pre, spent, calls, table >>

\* exists: all_data = _read_data(); return user_id in all_data.
ExistsRead(t) ==
  /\ pc[t] = "read"
  /\ StorageOp(t) = "exists"
  /\ found' = [found EXCEPT ![t] = DictHas(ReadDoc, op[t].id)]
  /\ pc' = [pc EXCEPT ![t] = "rel"]
  /\ UNCHANGED << file, lock, now, draws, op, phase, data, all_data, exc, ret, pre, spent, calls, table >>

\* _write_data: open(file_path, 'w') truncates the document.
TruncateFile(t) ==
  /\ pc[t] = "trunc"
  /\ file' = [file EXCEPT !.ok = FALSE]
  /\ pc' = [pc EXCEPT ![t] = "write"]
  /\ UNCHANGED << lock, now, draws, op, phase, data, found, all_data, exc, ret, pre, spent, calls, table >>

\* _write_data: json.dump(data, f) and the close of the file.
WriteData(t) ==
  /\ pc[t] = "write"
  /\ file' = [ok |-> TRUE, doc |-> all_data[t]]
  /\ all_data' = [all_data EXCEPT ![t] = EmptyDoc]
  /\ pc' = [pc EXCEPT ![t] = "rel"]
  /\ spent' = IF op[t].name = "setup"
                THEN {x \in spent : x[1] # op[t].id}
                ELSE spent
  /\ UNCHANGED << lock, now, draws, op, phase, data, found, exc, ret, pre, calls, table >>

\* _release_lock: if self.lock_path.exists(), and the lock file is there.
ReleaseCheck(t) ==
  /\ pc[t] = "rel"
  /\ lock
  /\ pc' = [pc EXCEPT ![t] = "unlink"]
  /\ UNCHANGED << file, lock, now, draws, op, phase, data, found, all_data, exc, ret, pre, spent, calls, table >>

\* _release_lock: if self.lock_path.exists(), and the lock file is gone.
ReleaseSkip(t) ==
  /\ pc[t] = "rel"
  /\ ~lock
  /\ StorageReturn(t, exc[t])
  /\ exc' = [exc EXCEPT ![t] = "none"]
  /\ UNCHANGED << file, lock, now, draws, op, phase, data, found, all_data, pre, spent, calls, table >>

\* _release_lock: self.lock_path.unlink() removes the lock file.
ReleaseLock(t) ==
  /\ pc[t] = "unlink"
  /\ lock
  /\ lock' = FALSE
  /\ StorageReturn(t, exc[t])
  /\ exc' = [exc EXCEPT ![t] = "none"]
  /\ UNCHANGED << file, now, draws, op, phase, data, found, all_data, pre, spent, calls, table >>

\* _release_lock: self.lock_path.unlink() when another caller removed the
\* lock file since the test: unlink raises FileNotFoundError out of finally.
UnlinkMissing(t) ==
  /\ pc[t] = "unlink"
  /\ ~lock
  /\ StorageReturn(t, "FileNotFoundError")
  /\ exc' = [exc EXCEPT ![t] = "none"]
  /\ UNCHANGED << file, lock, now, draws, op, phase, data, found, all_data, pre, spent, calls, table >>

\* ----------------------------------------------------------- orchestrator

IsNone(d) == "none" \in DOMAIN d

\* A faulty setup: the test is missing.
AlreadyConfigured_Never(t) == FALSE

\* setup: if self.storage.exists(user_id).
AlreadyConfigured(t) == found[t]

\* A faulty activate: the test is missing.
AlreadyActivated_Never(t) == FALSE

\* activate: if data['enabled'].
AlreadyActivated(t) == data[t].enabled

\* A faulty verify: an unconfigured user is turned away.
PassThrough_Deny == Returns("False", 155)

\* verify: what an unconfigured user gets.
PassThrough == Returns("True", 155)

\* A faulty setup: the record is saved enabled.
NewRecord_Enabled(secret, recovery_codes, at) ==
  [secret |-> secret, enabled |-> TRUE,
   recovery_codes |-> recovery_codes, created_at |-> at]

\* setup: the record that is saved.
NewRecord(secret, recovery_codes, at) ==
  [secret |-> secret, enabled |-> FALSE,
   recovery_codes |-> recovery_codes, created_at |-> at]

\* A call returns (or raises) without a further storage operation.
Finish(t, r) ==
  /\ ret' = [ret EXCEPT ![t] = r]
  /\ pc' = [pc EXCEPT ![t] = "done"]
  /\ UNCHANGED << draws, phase, data >>

\* A call goes on to storage.save(user_id, d) and will then return r.
ThenSave(t, d, r) ==
  /\ data' = [data EXCEPT ![t] = d]
  /\ ret' = [ret EXCEPT ![t] = r]
  /\ phase' = [phase EXCEPT ![t] = 2]
  /\ pc' = [pc EXCEPT ![t] = "acq"]

\* setup, after storage.exists(user_id).
SetupCont(t) ==
  /\ pc[t] = "cont"
  /\ op[t].name = "setup"
  /\ IF AlreadyConfigured(t)
       THEN Finish(t, Returns("AlreadyConfigured", 61))
       ELSE LET secret == random_base32(draws + 1)
                recovery_codes == Batch[draws + 1]
            IN  /\ draws' = draws + 1
                /\ ThenSave(t, NewRecord(secret, recovery_codes, now),
                     [tag |-> "Payload", line |-> 95, secret |-> secret,
                      codes |-> recovery_codes])
  /\ UNCHANGED << file, lock, now, op, found, all_data, exc, pre, spent, calls, table >>

\* activate, after storage.get(user_id).
ActivateCont(t) ==
  /\ pc[t] = "cont"
  /\ op[t].name = "activate"
  /\ IF IsNone(data[t])
       THEN Finish(t, Returns("NotConfigured", 117))
     ELSE IF AlreadyActivated(t)
       THEN Finish(t, Returns("AlreadyActivated", 120))
     ELSE IF TotpVerify(data[t].secret, op[t].code, now)
       THEN /\ ThenSave(t, [data[t] EXCEPT !.enabled = TRUE], Returns("True", 128))
            /\ draws' = draws
     ELSE Finish(t, Returns("False", 130))
  /\ UNCHANGED << file, lock, now, op, found, all_data, exc, pre, spent, calls, table >>

\* verify, after storage.get(user_id).
VerifyCont(t) ==
  /\ pc[t] = "cont"
  /\ op[t].name = "verify"
  /\ IF IsNone(data[t])
       THEN Finish(t, PassThrough)
     ELSE IF TotpVerify(data[t].secret, op[t].code, now)
       THEN Finish(t, Returns("True", 161))
     ELSE LET r == verify_recovery_code(data[t].recovery_codes, op[t].code)
          IN  IF r[1]
                THEN /\ ThenSave(t, [data[t] EXCEPT !.recovery_codes = r[2]],
                                 Returns("True", 171))
                     /\ draws' = draws
                ELSE Finish(t, Returns("False", 173))
  /\ UNCHANGED << file, lock, now, op, found, all_data, exc, pre, spent, calls, table >>

\* A faulty is_enabled: a record counts as enabled.
IsEnabledCont_AnyRecord(t) ==
  /\ pc[t] = "cont"
  /\ op[t].name = "is_enabled"
  /\ Finish(t, Returns(IF IsNone(data[t]) THEN "False" ELSE "True", 200))
  /\ UNCHANGED << file, lock, now, op, found, all_data, exc, pre, spent, calls, table >>

\* is_enabled, after storage.get(user_id).
IsEnabledCont(t) ==
  /\ pc[t] = "cont"
  /\ op[t].name = "is_enabled"
  /\ IF IsNone(data[t])
       THEN Finish(t, Returns("False", 199))
       ELSE Finish(t, Returns(IF data[t].enabled THEN "True" ELSE "False", 200))
  /\ UNCHANGED << file, lock, now, op, found, all_data, exc, pre, spent, calls, table >>

\* regenerate_recovery_codes, after storage.get(user_id).
RegenerateCont(t) ==
  /\ pc[t] = "cont"
  /\ op[t].name = "regenerate_recovery_codes"
  /\ IF IsNone(data[t])
       THEN Finish(t, Returns("NotConfigured", 216))
       ELSE LET new_codes == Batch[draws + 1]
            IN  /\ draws' = draws + 1
                /\ ThenSave(t, [data[t] EXCEPT !.recovery_codes = new_codes],
                     [tag |-> "Codes", line |-> 222, secret |-> 0, codes |-> new_codes])
  /\ UNCHANGED << file, lock, now, op, found, all_data, exc, pre, spent, calls, table >>

\* The caller has its result; the thread is free for the next call.
Return(t) ==
  /\ pc[t] = "done"
  /\ pc' = [pc EXCEPT ![t] = "idle"]
  /\ op' = [op EXCEPT ![t] = NoOp]
  /\ phase' = [phase EXCEPT ![t] = 1]
  /\ data' = [data EXCEPT ![t] = None]
  /\ found' = [found EXCEPT ![t] = FALSE]
  /\ ret' = [ret EXCEPT ![t] = NoRet]
  /\ pre' = [pre EXCEPT ![t] = EmptyDoc]
  /\ spent' = IF op[t].name = "verify" /\ ret[t].line = 171
                THEN spent \cup {<< op[t].id, Upper(op[t].code) >>}
                ELSE spent
  /\ UNCHANGED << file, lock, now, draws, all_data, exc, calls, table >>

\* Thirty seconds pass.  A call reads the clock once, so a tick during a
\* call is a tick before or after it.
Tick ==
  /\ now < MaxStep
  /\ \A t \in Threads : pc[t] = "idle"
  /\ now' = now + 1
  /\ UNCHANGED << file, lock, draws, pc, op, phase, data, found, all_data, exc, ret, pre, spent, calls, table >>

\* ----------------------------------------------------------- storage port

\* The records a direct caller of the storage port saves.
Records ==
  { NewRecord(1, Batch[1], 0),
    [NewRecord(2, Batch[2], 1) EXCEPT !.enabled = TRUE],
    [NewRecord(1, << >>, 0) EXCEPT !.enabled = TRUE] }

\* A direct call of JSONStorage.save, get or delete begins.
StoreCall(t, name, id, rec) ==
  /\ pc[t] = "idle"
  /\ op' = [op EXCEPT ![t] = [name |-> name, id |-> id, code |-> << >>]]
  /\ data' = [data EXCEPT ![t] = rec]
  /\ pre' = [pre EXCEPT ![t] = file.doc]
  /\ pc' = [pc EXCEPT ![t] = "acq"]
  /\ UNCHANGED << file, lock, now, draws, phase, found, all_data, exc, ret, spent, calls, table >>

JsonSave(t) == \E id \in Users : \E rec \in Records : StoreCall(t, "save", id, rec)

JsonGet(t) == \E id \in Users : StoreCall(t, "get", id, None)

JsonDelete(t) == \E id \in Users : StoreCall(t, "delete", id, None)

\* JSONStorage.get hands all_data.get(user_id) to its caller.
StoreCont(t) ==
  /\ pc[t] = "cont"
  /\ op[t].name = "get"
  /\ Finish(t, Returns("Value", 96))
  /\ UNCHANGED << file, lock, now, op, found, all_data, exc, pre, spent, calls, table >>

\* json.dumps of a list of strings: ["AB", "CD"].
RECURSIVE JoinCodes(_)
JoinCodes(codes) ==
  IF codes = << >> THEN << >>
  ELSE << "\"" >> \o codes[1] \o << "\"" >>
         \o (IF Len(codes) > 1 THEN << ",", " " >> \o JoinCodes(Tail(codes)) ELSE << >>)

json_dumps(codes) == << "[" >> \o JoinCodes(codes) \o << "]" >>

\* The positions of the quotation marks in a text.
QuotesIn(text) ==
  SelectSeq([i \in 1..Len(text) |-> i], LAMBDA i : text[i] = "\"")

\* json.loads of such a text: the strings between the first and the second
\* quotation mark, the third and the fourth, and so on.
json_loads(text) ==
  LET q == QuotesIn(text)
  IN  [k \in 1..(Len(q) \div 2) |-> SubSeq(text, q[2 * k - 1] + 1, q[2 * k] - 1)]

\* SQLStorage.save: the column values bound to the insert statement; the
\* database keeps a boolean as 0 or 1.
SqlRow(d) ==
  [secret |-> d.secret,
   enabled |-> IF d.enabled THEN 1 ELSE 0,
   recovery_codes |-> json_dumps(d.recovery_codes),
   created_at |-> d.created_at]

\* SQLStorage.get: the dict built from a row.
SqlRecord(row) ==
  [secret |-> row.secret,
   enabled |-> row.enabled # 0,
   recovery_codes |-> json_loads(row.recovery_codes),
   created_at |-> row.created_at]

\* The insert statement: insert, or update on a conflict on user_id.
SqlUpsert(rows, user_id, row) ==
  [k \in (DOMAIN rows) \cup {user_id} |-> IF k = user_id THEN row ELSE rows[k]]

\* The select_by_user statement: the list of rows of user_id.
SqlSelect(rows, user_id) ==
  IF user_id \in DOMAIN rows THEN << rows[user_id] >> ELSE << >>

\* The delete statement.
SqlDeleteRow(rows, user_id) == [k \in (DOMAIN rows) \ {user_id} |-> rows[k]]

\* What SQLStorage.get returns for every user_id that has a row.
SqlContent == [k \in DOMAIN table |-> SqlRecord(table[k])]

\* A direct call of an SQLStorage operation: one statement, run at once.
SqlCall(t, name, id, rec, rows) ==
  /\ pc[t] = "idle"
  /\ op' = [op EXCEPT ![t] = [name |-> name, id |-> id, code |-> << >>]]
  /\ data' = [data EXCEPT ![t] = rec]
  /\ pre' = [pre EXCEPT ![t] = SqlContent]
  /\ table' = rows
  /\ pc' = [pc EXCEPT ![t] = "done"]
  /\ UNCHANGED << file, lock, now, draws, phase, found, all_data, exc, ret, spent, calls >>

\* SQLStorage.save.
SqlSave(t) ==
  \E id \in Users : \E rec \in Records :
    SqlCall(t, "sql_save", id, rec, SqlUpsert(table, id, SqlRow(rec)))

\* SQLStorage.get.
SqlGet(t) ==
  \E id \in Users :
    LET result == SqlSelect(table, id)
    IN  SqlCall(t, "sql_get", id,
                IF result = << >> THEN None ELSE SqlRecord(result[1]), table)

\* SQLStorage.delete.
SqlDelete(t) ==
  \E id \in Users : SqlCall(t, "sql_delete", id, None, SqlDeleteRow(table, id))

\* ---------------------------------------------------------- specifications

\* The calls a thread may make for the users U; the calls are counted
\* against MaxCalls when `counted`.
Calls(t, U, counted) ==
  \/ CallSetup(t, U, counted)
  \/ CallActivate(t, U, counted)
  \/ CallVerify(t, U, counted)
  \/ CallDisable(t, U, counted)
  \/ CallIsEnabled(t, U, counted)
  \/ CallRegenerate(t, U, counted)

\* The steps of a call past the test of the lock file that do not depend on
\* other callers.
Proceed(t) ==
  \/ TouchLock(t)
  \/ SaveRead(t) \/ GetRead(t) \/ DeleteRead(t) \/ ExistsRead(t)
  \/ TruncateFile(t) \/ WriteData(t)
  \/ ReleaseCheck(t) \/ ReleaseLock(t)
  \/ SetupCont(t) \/ ActivateCont(t) \/ VerifyCont(t)
  \/ IsEnabledCont(t) \/ RegenerateCont(t)
  \/ Return(t)

\* The steps of a call that do not depend on other callers.
Run(t) == AcquireLock(t) \/ Proceed(t)

\* The steps a caller takes only when another caller holds or has removed
\* the lock file.
Contend(t) == AcquireTimeout(t) \/ ReleaseSkip(t) \/ UnlinkMissing(t)

\* One caller at a time, for any user, as the clock runs.
NextSeq ==
  Tick \/ \E t \in SeqThreads : Calls(t, Users, FALSE) \/ Run(t)

\* Two callers racing each other within one time step, MaxCalls calls in all.
Next ==
  \E t \in Threads : Calls(t, RaceUsers, TRUE) \/ Run(t) \/ Contend(t)

\* Thread t is inside a storage operation, past the test of the lock file.
InStorage(t) == pc[t] \in {"touch", "read", "trunc", "write", "rel", "unlink"}

\* Thread t finds the lock file absent while no other caller is inside a
\* storage operation.
AcquireLockInTurn(t) ==
  /\ \A t2 \in Threads \ {t} : ~InStorage(t2)
  /\ AcquireLock(t)

\* Two callers whose storage operations take turns: a caller begins a
\* storage operation only when the other caller is inside none.  These are
\* the runs of Next in which the lock file does keep the storage operations
\* apart.
NextOps ==
  \E t \in Threads :
    Calls(t, RaceUsers, TRUE) \/ AcquireLockInTurn(t) \/ Proceed(t)

\* The user a caller works for when each caller has a user of its own.
OwnUser(t) == IF t \in SeqThreads THEN RaceUsers ELSE Users \ RaceUsers

\* Two callers racing each other for the lock file, each on its own user.
NextUsers ==
  \E t \in Threads : Calls(t, OwnUser(t), TRUE) \/ Run(t) \/ Contend(t)

\* One caller of the storage port itself, on the file backend and on the
\* SQL backend.
NextStore ==
  \E t \in SeqThreads :
    \/ JsonSave(t) \/ JsonGet(t) \/ JsonDelete(t)
    \/ AcquireLock(t) \/ TouchLock(t)
    \/ SaveRead(t) \/ GetRead(t) \/ DeleteRead(t)
    \/ TruncateFile(t) \/ WriteData(t)
    \/ ReleaseCheck(t) \/ ReleaseLock(t)
    \/ StoreCont(t) \/ Return(t)
    \/ SqlSave(t) \/ SqlGet(t) \/ SqlDelete(t)

\* activate with the code of an authenticator that may be out of step.
ActivateOffStep(t) ==
  \E id \in RaceUsers : \E code \in ClockInputs(id) :
    Call(t, "activate", id, code, FALSE)

\* verify with the code of an authenticator that may be out of step.
VerifyOffStep(t) ==
  \E id \in RaceUsers : \E code \in ClockInputs(id) :
    Call(t, "verify", id, code, FALSE)

\* One caller enrols, activates and verifies with TOTP codes only, as the
\* clock runs.
NextTotp ==
  \/ Tick
  \/ \E t \in SeqThreads :
       \/ CallSetup(t, RaceUsers, FALSE) \/ CallDisable(t, RaceUsers, FALSE)
       \/ ActivateOffStep(t) \/ VerifyOffStep(t)
       \/ AcquireLock(t) \/ TouchLock(t)
       \/ ExistsRead(t) \/ GetRead(t) \/ SaveRead(t) \/ DeleteRead(t)
       \/ TruncateFile(t) \/ WriteData(t)
       \/ ReleaseCheck(t) \/ ReleaseLock(t)
       \/ SetupCont(t) \/ ActivateCont(t) \/ VerifyCont(t)
       \/ Return(t)

SpecSeq == Init /\ [][NextSeq]_vars

SpecTotp == Init /\ [][NextTotp]_vars

SpecUsers == Init /\ [][NextUsers]_vars

SpecStore == Init /\ [][NextStore]_vars

Spec == Init /\ [][Next]_vars

SpecOps == Init /\ [][NextOps]_vars

\* Fair scheduling: a caller that can take a step takes one.  Within a
\* storage operation a step is always possible: the wait for the lock file
\* ends when the file is gone or when `timeout` seconds have passed.
Fairness == \A t \in Threads : WF_vars(Run(t) \/ Contend(t))

\* The racing callers under fair scheduling.
SpecFair == Init /\ [][Next]_vars /\ Fairness

\* ------------------------------------------------------------------ claims

\* Thread t has a result for a call of `name` that the caller has not yet
\* taken.
Done(t, name) == pc[t] = "done" /\ op[t].name = name

\* The recovery codes of a record, upper-cased, as a set.
CodesOf(rec) == {Upper(rec.recovery_codes[i]) : i \in 1..Len(rec.recovery_codes)}

\* The code typed in the call of thread t was a stored recovery code of the
\* user's record when the call began.
TypedStoredCode(t) ==
  /\ op[t].id \in DOMAIN pre[t]
  /\ Upper(op[t].code) \in CodesOf(pre[t][op[t].id])

\* C1: of the concurrent verify calls that present the same stored recovery
\* code of one record, at most one returns True (no double-spend).
C1_NoDoubleSpend ==
  \A t1, t2 \in Threads :
    ( /\ t1 # t2
      /\ Done(t1, "verify") /\ Done(t2, "verify")
      /\ op[t1].id = op[t2].id
      /\ Upper(op[t1].code) = Upper(op[t2].code)
      /\ TypedStoredCode(t1) /\ TypedStoredCode(t2) )
    => ~(ret[t1].tag = "True" /\ ret[t2].tag = "True")

\* The document on disk is complete and is d.
Stored(d) == file = [ok |-> TRUE, doc |-> d]

\* The call of thread t left the document as it found it.
Untouched(t) == Stored(pre[t])

\* The records of all users but id are in d what they are in e.
OthersSame(d, e, id) ==
  \A u \in Users \ {id} :
    /\ u \in DOMAIN d <=> u \in DOMAIN e
    /\ u \in DOMAIN d => d[u] = e[u]

\* The call of thread t began with a record for its user.
HadRecord(t) == op[t].id \in DOMAIN pre[t]

C3_SetupOnExistingRefused ==
  \A t \in Threads :
    (Done(t, "setup") /\ HadRecord(t))
    => ret[t].tag = "AlreadyConfigured" /\ Untouched(t)

\* setup is refused for an Active user.
C3_Witness ==
  \E t \in Threads :
    /\ Done(t, "setup")
    /\ HadRecord(t)
    /\ pre[t][op[t].id].enabled
    /\ ret[t].tag = "AlreadyConfigured"
    /\ Untouched(t)

\* C4: setup on an id without a record succeeds and leaves a record with
\* enabled = false, the secret and the RecoveryCount recovery codes it
\* returned; is_enabled on such a record is False.
C4_SetupCreatesPending ==
  /\ \A t \in Threads :
       (Done(t, "setup") /\ ~HadRecord(t))
       => /\ ret[t].tag = "Payload"
          /\ file.ok
          /\ op[t].id \in DOMAIN file.doc
          /\ file.doc[op[t].id].enabled = FALSE
          /\ file.doc[op[t].id].secret = ret[t].secret
          /\ file.doc[op[t].id].recovery_codes = ret[t].codes
          /\ Len(ret[t].codes) = RecoveryCount
          /\ OthersSame(file.doc, pre[t], op[t].id)
  /\ \A t \in Threads :
       (Done(t, "is_enabled") /\ HadRecord(t) /\ ~pre[t][op[t].id].enabled)
       => ret[t].tag = "False" /\ Untouched(t)

\* is_enabled answers False for a user whose setup has just been saved.
C4_Witness ==
  \E t \in Threads :
    /\ Done(t, "is_enabled")
    /\ HadRecord(t)
    /\ ~pre[t][op[t].id].enabled
    /\ Len(pre[t][op[t].id].recovery_codes) = RecoveryCount
    /\ ret[t].tag = "False"

\* C5: activate fails with "not configured" without a record and with
\* "already activated" on an enabled record, and changes nothing.
C5_ActivatePreconditions ==
  \A t \in Threads :
    Done(t, "activate")
    => /\ ~HadRecord(t) => ret[t].tag = "NotConfigured" /\ Untouched(t)
       /\ (HadRecord(t) /\ pre[t][op[t].id].enabled)
            => ret[t].tag = "AlreadyActivated" /\ Untouched(t)

\* activate with the right code is refused for an Active user.
C5_Witness ==
  \E t \in Threads :
    /\ Done(t, "activate")
    /\ HadRecord(t)
    /\ pre[t][op[t].id].enabled
    /\ op[t].code = TotpCode(pre[t][op[t].id].secret, now)
    /\ ret[t].tag = "AlreadyActivated"

\* The code is the code of the secret at the current step, the step before
\* or the step after.
InWindow(secret, code) ==
  \E i \in {0 - 1, 0, 1} : code = TotpCode(secret, now + i)

\* C6: on a PendingActivation record, activate with a code within one step
\* of the clock saves enabled = true and returns True; with any other code
\* it returns False and changes nothing.
C6_ActivateOnPending ==
  \A t \in Threads :
    (Done(t, "activate") /\ HadRecord(t) /\ ~pre[t][op[t].id].enabled)
    => IF InWindow(pre[t][op[t].id].secret, op[t].code)
         THEN /\ ret[t].tag = "True"
              /\ Stored([pre[t] EXCEPT ![op[t].id].enabled = TRUE])
         ELSE /\ ret[t].tag = "False"
              /\ Untouched(t)

\* activate succeeds with the code of the next step, the edge of the window.
C6_Witness ==
  \E t \in Threads :
    /\ Done(t, "activate")
    /\ HadRecord(t)
    /\ ~pre[t][op[t].id].enabled
    /\ op[t].code = TotpCode(pre[t][op[t].id].secret, now + 1)
    /\ ret[t].tag = "True"
    /\ file.doc[op[t].id].enabled

\* C7: verify returns True for every code while the id has no record, and
\* creates none.
C7_VerifyPassThrough ==
  \A t \in Threads :
    (Done(t, "verify") /\ ~HadRecord(t))
    => ret[t].tag = "True" /\ Untouched(t)

\* verify lets a string that is no code through for a user whose record was
\* removed.
C7_Witness ==
  \E t \in Threads :
    /\ Done(t, "verify")
    /\ ~HadRecord(t)
    /\ draws > 0
    /\ op[t].code = Garbage
    /\ ret[t].tag = "True"

\* C8: disable raises nothing in any state and leaves no record for the id
\* and the other records as they were; on an id without a record it changes
\* nothing, so a second disable leaves what the first left.
C8_DisableIdempotent ==
  \A t \in Threads :
    Done(t, "disable")
    => /\ ret[t] = Returns("None", 183)
       /\ file.ok
       /\ op[t].id \notin DOMAIN file.doc
       /\ OthersSame(file.doc, pre[t], op[t].id)
       /\ ~HadRecord(t) => Untouched(t)

\* disable has removed the record of an Active user.
C8_Witness ==
  \E t \in Threads :
    /\ Done(t, "disable")
    /\ HadRecord(t)
    /\ pre[t][op[t].id].enabled
    /\ op[t].id \notin DOMAIN file.doc

\* C9: once regenerate_recovery_codes has returned its batch, the stored
\* recovery codes of the record are codes of that batch only, also when a
\* verify call on the same id overlaps the regeneration: no code of the old
\* batch is valid again.
C9_OldCodesStayInvalid ==
  \A t \in Threads :
    ( /\ Done(t, "regenerate_recovery_codes")
      /\ ret[t].tag = "Codes"
      /\ \A t2 \in Threads \ {t} : op[t2].name \in {"none", "verify"}
      /\ op[t].id \in DOMAIN file.doc )
    => CodesOf(file.doc[op[t].id]) \subseteq
         {Upper(ret[t].codes[i]) : i \in 1..Len(ret[t].codes)}

\* C10: no step turns the enabled flag of a record from true to false: a
\* record that is enabled and is still in the document after the step, with
\* the secret it had, is still enabled.
C10_EnabledNeverReset ==
  [][\A id \in Users :
       ( /\ id \in DOMAIN file.doc
         /\ file.doc[id].enabled
         /\ id \in DOMAIN file'.doc
         /\ file'.doc[id].secret = file.doc[id].secret )
       => file'.doc[id].enabled]_vars

\* The state of user id in document d.
StateOf(d, id) ==
  IF id \notin DOMAIN d THEN "Unconfigured"
  ELSE IF d[id].enabled THEN "Active"
  ELSE "PendingActivation"

\* Thread t completes a write of the document in this step.
Writes(t) == pc[t] = "write" /\ pc'[t] = "rel"

\* C11: every change of a user's state is Unconfigured to PendingActivation
\* by a setup on that user, PendingActivation to Active by an activate on
\* that user, or any state to Unconfigured by a disable on that user; under
\* any interleaving no record comes into existence but through setup and
\* enabled becomes true only through activate.
C11_OnlyLegalTransitions ==
  [][\A id \in Users :
       StateOf(file.doc, id) # StateOf(file'.doc, id)
       => \E t \in Threads :
            /\ Writes(t)
            /\ op[t].id = id
            /\ \/ /\ op[t].name = "setup"
                  /\ StateOf(file.doc, id) = "Unconfigured"
                  /\ StateOf(file'.doc, id) = "PendingActivation"
               \/ /\ op[t].name = "activate"
                  /\ StateOf(file.doc, id) = "PendingActivation"
                  /\ StateOf(file'.doc, id) = "Active"
               \/ /\ op[t].name = "disable"
                  /\ StateOf(file'.doc, id) = "Unconfigured"]_vars

\* C12: read-then-write operations on one user are serialized so that no
\* update is lost: under any interleaving the stored recovery codes of a
\* record (the record of an id for as long as it keeps its secret) gain no
\* code except by a write of regenerate_recovery_codes, so that concurrent
\* verify calls that succeed on different codes leave both codes removed.
C12_CodesNeverGrow ==
  [][\A id \in Users :
       ( /\ id \in DOMAIN file.doc
         /\ id \in DOMAIN file'.doc
         /\ file'.doc[id].secret = file.doc[id].secret
         /\ ~(CodesOf(file'.doc[id]) \subseteq CodesOf(file.doc[id])) )
       => \E t \in Threads :
            Writes(t) /\ op[t].id = id /\ op[t].name = "regenerate_recovery_codes"]_vars

\* C13: the secret of a record is fixed when setup creates it and never
\* changes while the record exists, concurrent setup calls on the same id
\* included: no step replaces the secret of an id that has a record before
\* and after it.
C13_SecretFixed ==
  [][\A id \in Users :
       (id \in DOMAIN file.doc /\ id \in DOMAIN file'.doc)
       => file'.doc[id].secret = file.doc[id].secret]_vars

\* Thread t is between a successful _acquire_lock and the end of its
\* _release_lock.
Holding(t) ==
  \/ pc[t] \in {"read", "trunc", "write"}
  \/ pc[t] \in {"rel", "unlink"} /\ exc[t] = "none"

\* C14: the lock of the file backend is a mutual-exclusion guard: at no
\* time are two storage operations both between a successful _acquire_lock
\* and their _release_lock.
C14_MutualExclusion ==
  \A t1, t2 \in Threads : (Holding(t1) /\ Holding(t2)) => t1 = t2

\* Thread t reads the document in this step.
Reads(t) == pc[t] = "read" /\ pc'[t] # "read"

\* C15: an unreadable document fails closed: a storage read of a document
\* that does not parse raises a storage failure and is never taken for "no
\* record", so no verify passes through on it and no save built on it drops
\* the records of the other users.
C15_CorruptReadFailsClosed ==
  [][\A t \in Threads :
       (Reads(t) /\ ~file.ok)
       => /\ exc'[t] # "none"
          /\ data'[t] = data[t]
          /\ all_data'[t] = all_data[t]
          /\ found'[t] = found[t]]_vars

\* Thread t leaves its storage operation in this step.
Leaves(t) == pc[t] \in {"rel", "unlink"} /\ pc'[t] \in {"cont", "done"}

\* C16: when the lock is not acquired within the timeout the storage
\* operation raises TimeoutError, which reaches the caller of the
\* orchestrator operation as it is: the call returns neither True nor False,
\* and the document is not modified by the failed operation.
C16_TimeoutPropagates ==
  [][\A t \in Threads :
       (exc[t] = "TimeoutError" /\ pc'[t] # pc[t])
       => /\ file' = file
          /\ Leaves(t) => (pc'[t] = "done" /\ ret'[t] = Returns("TimeoutError", 0))]_vars

\* For a storage that held `before` when the operation began and holds
\* `after` now, the operation of thread t on its id did what the operation of
\* that kind does on a map from ids to records: save leaves the saved record
\* as the record of the id, get returns the record of the id or None, delete
\* leaves no record for the id; the records of the other ids stay.
ActsAsMap(t, kind, before, after) ==
  LET id == op[t].id
  IN  CASE kind = "save" ->
             /\ DictGet(after, id) = data[t]
             /\ OthersSame(after, before, id)
        [] kind = "get" ->
             /\ data[t] = DictGet(before, id)
             /\ after = before
        [] kind = "delete" ->
             /\ DictGet(after, id) = None
             /\ OthersSame(after, before, id)

\* C17: for sequential storage operations on either backend, get returns
\* exactly the record of the most recent save of the id that no delete has
\* followed and None when there is none, and save on an id that has a record
\* replaces it: each operation acts on the stored records as on a map.
C17_StorageIsMap ==
  \A t \in Threads :
    /\ \A kind \in {"save", "get", "delete"} :
         Done(t, kind) => file.ok /\ ActsAsMap(t, kind, pre[t], file.doc)
    /\ Done(t, "sql_save") => ActsAsMap(t, "save", pre[t], SqlContent)
    /\ Done(t, "sql_get") => ActsAsMap(t, "get", pre[t], SqlContent)
    /\ Done(t, "sql_delete") => ActsAsMap(t, "delete", pre[t], SqlContent)

\* save has replaced the record of an id, on both backends alike, by a
\* record with a full batch of recovery codes.
C17_Witness ==
  \E t \in Threads :
    /\ Done(t, "sql_save")
    /\ HadRecord(t)
    /\ pre[t][op[t].id] # data[t]
    /\ Len(data[t].recovery_codes) = RecoveryCount
    /\ SqlContent[op[t].id] = data[t]
    /\ op[t].id \in DOMAIN file.doc
    /\ file.doc[op[t].id] = data[t]

\* C18: is_enabled is a pure read: it changes no record, and it returns True
\* exactly when the id has a record with enabled = true, False otherwise.
C18_IsEnabledPureRead ==
  \A t \in Threads :
    Done(t, "is_enabled")
    => /\ Untouched(t)
       /\ ret[t].tag \in {"True", "False"}
       /\ ret[t].tag = "True" <=> (HadRecord(t) /\ pre[t][op[t].id].enabled)

\* is_enabled answers True for an Active user and False, at once, for
\* another user who is enrolled but not activated.
C18_Witness ==
  \E t \in Threads :
    /\ Done(t, "is_enabled")
    /\ HadRecord(t)
    /\ pre[t][op[t].id].enabled
    /\ ret[t] = Returns("True", 200)
    /\ \E u \in DOMAIN pre[t] : ~pre[t][u].enabled

\* The code is the code of the secret `off` steps from the clock.
CodeAt(secret, code, off) == code = TotpAt[secret][now + off]

\* Thread t has the result of a TOTP verification: of activate on a record
\* that was not enabled, or of verify on a record.
TotpChecked(t) ==
  /\ HadRecord(t)
  /\ \/ Done(t, "verify")
     \/ Done(t, "activate") /\ ~pre[t][op[t].id].enabled

\* C19: with the code of a secret a function of (secret, step), TOTP
\* verification with valid_window = 1, as activate and verify use it, accepts
\* the code of the current step and of the steps one before and one after,
\* and rejects the code of the steps two before and two after when that code
\* is none of the three accepted ones.
C19_WindowOfOne ==
  \A t \in Threads :
    TotpChecked(t)
    => LET secret == pre[t][op[t].id].secret
           code == op[t].code
           near == \E off \in {0 - 1, 0, 1} : CodeAt(secret, code, off)
           far == \E off \in {0 - 2, 2} : CodeAt(secret, code, off)
       IN  /\ near => ret[t].tag = "True"
           /\ (far /\ ~near) => ret[t].tag = "False"

\* verify has turned down the code of two steps ago, after the clock ran.
C19_Witness ==
  \E t \in Threads :
    /\ Done(t, "verify")
    /\ HadRecord(t)
    /\ now > 0
    /\ CodeAt(pre[t][op[t].id].secret, op[t].code, 0 - 2)
    /\ \A off \in {0 - 1, 0, 1} : ~CodeAt(pre[t][op[t].id].secret, op[t].code, off)
    /\ ret[t] = Returns("False", 173)

\* Thread t goes on from its continuation to storage.save in this step.
GoesToSave(t) == pc[t] = "cont" /\ pc'[t] = "acq"

\* C20: a verify call, whatever its result, never changes the enabled flag,
\* the secret or created_at of the record: it goes on to a save only when the
\* code failed TOTP and matched a recovery code of the record it read, it then
\* returns True, and its write leaves the record of the id in place with only
\* recovery_codes different and the other records as they were.
C20_VerifyFrame ==
  [][\A t \in Threads :
       op[t].name = "verify"
       => /\ GoesToSave(t)
             => /\ ~IsNone(data[t])
                /\ ~TotpVerify(data[t].secret, op[t].code, now)
                /\ Upper(op[t].code) \in CodesOf(data[t])
                /\ ret'[t] = Returns("True", 171)
          /\ Writes(t)
             => /\ op[t].id \in DOMAIN file.doc
                /\ op[t].id \in DOMAIN file'.doc
                /\ file'.doc[op[t].id].enabled = file.doc[op[t].id].enabled
                /\ file'.doc[op[t].id].secret = file.doc[op[t].id].secret
                /\ file'.doc[op[t].id].created_at = file.doc[op[t].id].created_at
                /\ OthersSame(file'.doc, file.doc, op[t].id)]_vars

\* Thread t removes the lock file in this step.
RemovesLock(t) == pc[t] = "unlink" /\ pc'[t] # "unlink" /\ lock /\ ~lock'

\* C21: the lock file is removed only by the operation that created it: a
\* storage operation whose _acquire_lock raised the timeout error never
\* removes the lock file, which is the lock file of the operation that holds
\* the lock, so no timeout lets a further caller into the critical section
\* while the holder is inside it.
C21_OnlyOwnerRemovesLock ==
  [][\A t \in Threads :
       RemovesLock(t) => exc[t] # "TimeoutError"]_vars

\* C22: an orchestrator operation on one user leaves the stored record of
\* every other user unchanged, also when operations on the two users run
\* concurrently against the same file: no step changes, adds or removes the
\* record of a user unless it is a write of an operation on that user, so the
\* record of a user is what that user's own last completed write left.
C22_OtherUsersUntouched ==
  [][\A id \in Users :
       DictGet(file'.doc, id) # DictGet(file.doc, id)
       => \E t \in Threads : Writes(t) /\ op[t].id = id]_vars

\* Thread t is inside a storage operation of the file backend, from the call
\* of _acquire_lock to the end of _release_lock.
InOperation(t) ==
  pc[t] \in {"acq", "touch", "read", "trunc", "write", "rel", "unlink"}

\* Every storage operation that has begun comes to an end.
OperationsTerminate ==
  \A t \in Threads : InOperation(t) ~> ~InOperation(t)

\* While no storage operation is in progress there is no lock file.
LockFreeWhenQuiet ==
  []((\A t \in Threads : ~InOperation(t)) => ~lock)

\* A storage operation ends by completing or by raising the timeout error.
EndsDoneOrTimeout ==
  [][\A t \in Threads :
       Leaves(t) => \/ ret'[t] = ret[t]
                    \/ ret'[t] = Returns("TimeoutError", 0)]_vars

\* C23: under fair scheduling every storage operation of the file backend
\* eventually terminates, either by completing or by raising the timeout
\* error, and whenever no storage operation is in progress the lock file is
\* absent, so that a lock left by a finished or failed operation never blocks
\* later operations forever.
C23_TerminatesAndFreesLock ==
  OperationsTerminate /\ LockFreeWhenQuiet /\ EndsDoneOrTimeout

====
